---- MODULE Spec2Model ----
(***************************************************************************)
(* A model of the command-line 2048 game of src/lab_1/part1.py: the global *)
(* board, the functions that change or read it, and the super-loop of the  *)
(* main program.  Spec is the program as it runs from init(); SpecFn runs  *)
(* one turn of the same loop from every grid of a bounded family, which is *)
(* how the statements about the functions on arbitrary grids are checked.  *)
(***************************************************************************)
EXTENDS Integers, Sequences, FiniteSets

VARIABLES board, before, userInput, pc, turns

vars == <<board, before, userInput, pc, turns>>

(* ---------------- program constants ---------------- *)

\* the value '' of an empty cell, represented as 0 (no tile holds 0)
Empty == 0

BoardRows == 4

BoardCols == 4

SampleRange == 16

(* ---------------- bounds of the model ---------------- *)

\* turns played from init() before only Q is entered
MaxTurns == 4

\* most tiles on a freely filled input grid of SpecFn
MaxTiles == 2

\* most rows and most columns of an input grid of SpecCall
MaxDim == 3

\* most empty cells punched into a dense input grid of SpecFn
MaxHoles == 1

\* the tile values input grids are filled with
TileVals == {2, 4, 8}

Moves == {"W", "A", "S", "D"}

\* the move arguments SpecCall passes: the four moves and three other strings
Tokens == Moves \cup {"Q", "w", "X"}

(* ---------------- helpers ---------------- *)

RECURSIVE SumSeq(_)
SumSeq(s) == IF s = <<>> THEN 0 ELSE Head(s) + SumSeq(Tail(s))

\* list.reverse()
Reverse(s) == [i \in 1..Len(s) |-> s[Len(s) + 1 - i]]

\* [x for x in row_array if x != ""]
NonEmptyCells(row_array) == SelectSeq(row_array, LAMBDA x : x # Empty)

\* MergeLoop with the merged pair replaced by one tile of the same value
RECURSIVE MergeLoopKeepValue(_, _, _, _)
MergeLoopKeepValue(cells, index, is_merged, final_cell) ==
  IF index > Len(cells) THEN final_cell
  ELSE IF is_merged THEN MergeLoopKeepValue(cells, index + 1, FALSE, final_cell)
  ELSE IF index + 1 <= Len(cells) /\ cells[index] = cells[index + 1]
       THEN MergeLoopKeepValue(cells, index + 1, TRUE, Append(final_cell, cells[index]))
       ELSE MergeLoopKeepValue(cells, index + 1, FALSE, Append(final_cell, cells[index]))

\* MergeLoop with the is_merged flag never set: the second tile of a pair is kept
RECURSIVE MergeLoopNoSkip(_, _, _, _)
MergeLoopNoSkip(cells, index, is_merged, final_cell) ==
  IF index > Len(cells) THEN final_cell
  ELSE IF index + 1 <= Len(cells) /\ cells[index] = cells[index + 1]
       THEN MergeLoopNoSkip(cells, index + 1, FALSE, Append(final_cell, cells[index] * 2))
       ELSE MergeLoopNoSkip(cells, index + 1, FALSE, Append(final_cell, cells[index]))

\* MergeLoop in which a tile that equals the tile last written merges into it,
\* so that a tile produced by a merge can merge again
RECURSIVE MergeLoopCascade(_, _, _, _)
MergeLoopCascade(cells, index, is_merged, final_cell) ==
  IF index > Len(cells) THEN final_cell
  ELSE IF final_cell # <<>> /\ final_cell[Len(final_cell)] = cells[index]
       THEN MergeLoopCascade(cells, index + 1, FALSE,
              [final_cell EXCEPT ![Len(final_cell)] = cells[index] * 2])
       ELSE MergeLoopCascade(cells, index + 1, FALSE, Append(final_cell, cells[index]))

\* MergeLoop with the comparison lost: any two neighbours are added up
RECURSIVE MergeLoopAnyPair(_, _, _, _)
MergeLoopAnyPair(cells, index, is_merged, final_cell) ==
  IF index > Len(cells) THEN final_cell
  ELSE IF is_merged THEN MergeLoopAnyPair(cells, index + 1, FALSE, final_cell)
  ELSE IF index + 1 <= Len(cells)
       THEN MergeLoopAnyPair(cells, index + 1, TRUE,
                             Append(final_cell, cells[index] + cells[index + 1]))
       ELSE MergeLoopAnyPair(cells, index + 1, FALSE, Append(final_cell, cells[index]))

\* the for loop of slideLeftAndMergeRow, from position index (1-based) on
RECURSIVE MergeLoop(_, _, _, _)
MergeLoop(cells, index, is_merged, final_cell) ==
  IF index > Len(cells) THEN final_cell
  ELSE IF is_merged THEN MergeLoop(cells, index + 1, FALSE, final_cell)
  ELSE IF index + 1 <= Len(cells) /\ cells[index] = cells[index + 1]
       THEN MergeLoop(cells, index + 1, TRUE, Append(final_cell, cells[index] * 2))
       ELSE MergeLoop(cells, index + 1, FALSE, Append(final_cell, cells[index]))

\* how often the for loop of slideLeftAndMergeRow takes its merging branch
RECURSIVE MergeCount(_, _, _)
MergeCount(cells, index, is_merged) ==
  IF index > Len(cells) THEN 0
  ELSE IF is_merged THEN MergeCount(cells, index + 1, FALSE)
  ELSE IF index + 1 <= Len(cells) /\ cells[index] = cells[index + 1]
       THEN 1 + MergeCount(cells, index + 1, TRUE)
       ELSE MergeCount(cells, index + 1, FALSE)

\* while len(final_cell) < len(row_array): final_cell.append("")
RECURSIVE PadRow(_, _)
PadRow(final_cell, n) ==
  IF Len(final_cell) < n THEN PadRow(Append(final_cell, Empty), n) ELSE final_cell

slideLeftAndMergeRow(row_array) ==
  PadRow(MergeLoop(NonEmptyCells(row_array), 1, FALSE, <<>>), Len(row_array))

\* slideRightAndMergeRow without the second reverse()
slideRightNoReverseBack(row_array) ==
  slideLeftAndMergeRow(Reverse(row_array))

\* slideRightAndMergeRow merging from the left and then packing to the right
slideRightMergingFromLeft(row_array) ==
  LET merged == MergeLoop(NonEmptyCells(row_array), 1, FALSE, <<>>)
  IN  [i \in 1..Len(row_array) |->
         IF i <= Len(row_array) - Len(merged) THEN Empty
         ELSE merged[i - (Len(row_array) - Len(merged))]]

\* reverse, slide and merge to the left, reverse back
slideRightAndMergeRow(row_array) ==
  Reverse(slideLeftAndMergeRow(Reverse(row_array)))

\* transposeBoard reading the rows from the last to the first: a quarter turn
transposeBoardRotating(current_board) ==
  [col \in 1..Len(current_board[1]) |->
     [row \in 1..Len(current_board) |->
        current_board[Len(current_board) + 1 - row][col]]]

transposeBoard(current_board) ==
  [col \in 1..Len(current_board[1]) |->
     [row \in 1..Len(current_board) |-> current_board[row][col]]]

\* for row_index in range(row_size): b[row_index] = f(b[row_index])
LeftRows(b, row_size) ==
  [row_index \in 1..Len(b) |->
     IF row_index <= row_size THEN slideLeftAndMergeRow(b[row_index]) ELSE b[row_index]]

RightRows(b, row_size) ==
  [row_index \in 1..Len(b) |->
     IF row_index <= row_size THEN slideRightAndMergeRow(b[row_index]) ELSE b[row_index]]

\* updateTheBoardBasedOnTheUserMove without the second transposeBoard of W and S
updateWithoutTransposeBack(b, move) ==
  CASE move = "A" -> LeftRows(b, Len(b))
    [] move = "D" -> RightRows(b, Len(b))
    [] move = "W" -> LeftRows(transposeBoard(b), Len(b))
    [] move = "S" -> RightRows(transposeBoard(b), Len(b))
    [] OTHER -> b

\* the board updateTheBoardBasedOnTheUserMove leaves, also when it raises: an
\* unknown move raises before anything is written; on a board of more rows
\* than columns W and S raise after the transposed board was assigned and
\* all its rows were slid
updateTheBoardBasedOnTheUserMove(b, move) ==
  CASE move = "A" -> LeftRows(b, Len(b))
    [] move = "D" -> RightRows(b, Len(b))
    [] move = "W" ->
         IF Len(b) > Len(b[1])
         THEN LeftRows(transposeBoard(b), Len(b))
         ELSE transposeBoard(LeftRows(transposeBoard(b), Len(b)))
    [] move = "S" ->
         IF Len(b) > Len(b[1])
         THEN RightRows(transposeBoard(b), Len(b))
         ELSE transposeBoard(RightRows(transposeBoard(b), Len(b)))
    [] OTHER -> b

\* updateRaises without the else branch: an unknown move is passed over
updateRaisesIndexErrorOnly(b, move) ==
  move \in {"W", "S"} /\ Len(b) > Len(b[1])

\* updateTheBoardBasedOnTheUserMove ends in an exception: the RuntimeError of
\* the else branch, or the IndexError of board[row_index] when the loop of W
\* and S runs over range(row_size) on a transposed board of fewer rows
updateRaises(b, move) ==
  \/ move \notin {"A", "D", "W", "S"}
  \/ move \in {"W", "S"} /\ Len(b) > Len(b[1])

\* the (row, col) pairs addANewTwoToBoard collects
EmptyCells(b) ==
  {cell \in (1..Len(b)) \X (1..Len(b[1])) : b[cell[1]][cell[2]] = Empty}

\* SpawnResults with the choice made among all cells, not among the empty ones
SpawnResultsAnyCell(b) ==
  {[b EXCEPT ![row][col] = 2] : row \in 1..Len(b), col \in 1..Len(b[1])}

\* SpawnResults with the new tile a 2 or a 4
SpawnResultsTwoOrFour(b) ==
  IF EmptyCells(b) # {}
  THEN {[b EXCEPT ![cell[1]][cell[2]] = v] : cell \in EmptyCells(b), v \in {2, 4}}
  ELSE {b}

\* the boards addANewTwoToBoard can leave: a 2 on one empty cell, if there is one
SpawnResults(b) ==
  IF EmptyCells(b) # {}
  THEN {[b EXCEPT ![cell[1]][cell[2]] = 2] : cell \in EmptyCells(b)}
  ELSE {b}

\* isFull as the usual rule of the game: full and no two equal neighbours
isFullAndNoMergeLeft(b) ==
  /\ \A row \in 1..Len(b) : \A col \in 1..Len(b[1]) : b[row][col] # Empty
  /\ \A row \in 1..Len(b) : \A col \in 1..(Len(b[1]) - 1) : b[row][col] # b[row][col + 1]
  /\ \A row \in 1..(Len(b) - 1) : \A col \in 1..Len(b[1]) : b[row][col] # b[row + 1][col]

\* isFull returning True after the first row without an empty cell
isFullFirstRowOnly(b) == \A col \in 1..Len(b[1]) : b[1][col] # Empty

isFull(b) == \A row \in 1..Len(b) : \A col \in 1..Len(b[1]) : b[row][col] # Empty

RECURSIVE ScoreRows(_, _)
ScoreRows(b, row) ==
  IF row > Len(b) THEN 0 ELSE SumSeq(b[row]) + ScoreRows(b, row + 1)

getCurrentScore(b) == ScoreRows(b, 1)

\* InitBoard with the row number used for the column as well
InitBoardOnDiagonal(n1, n2) ==
  [row \in 1..BoardRows |-> [col \in 1..BoardCols |->
     IF \/ (row - 1 = n1 \div 4 /\ col - 1 = n1 \div 4)
        \/ (row - 1 = n2 \div 4 /\ col - 1 = n2 \div 4)
     THEN 2 ELSE Empty]]

\* the board init() builds from the two sampled numbers
InitBoard(n1, n2) ==
  [row \in 1..BoardRows |-> [col \in 1..BoardCols |->
     IF \/ (row - 1 = n1 \div 4 /\ col - 1 = n1 % 4)
        \/ (row - 1 = n2 \div 4 /\ col - 1 = n2 % 4)
     THEN 2 ELSE Empty]]

EmptyBoard == [row \in 1..BoardRows |-> [col \in 1..BoardCols |-> Empty]]

(* ---------------- the program ---------------- *)

Init ==
  /\ \E n1 \in 0..(SampleRange - 1) : \E n2 \in 0..(SampleRange - 1) :
       n1 # n2 /\ board = InitBoard(n1, n2)
  /\ before = EmptyBoard
  /\ userInput = "none"
  /\ pc = "prompt"
  /\ turns = 0

\* Quit without the break: the loop goes on to the next prompt
QuitWithoutBreak ==
  /\ pc = "prompt"
  /\ userInput' = "Q"
  /\ pc' = "prompt"
  /\ UNCHANGED <<board, before, turns>>

\* Quit taken only after the turn's spawn has run
QuitAfterSpawn ==
  /\ pc = "prompt"
  /\ userInput' = "Q"
  /\ board' \in SpawnResults(board)
  /\ pc' = "done"
  /\ UNCHANGED <<before, turns>>

\* userInput == "Q": break
Quit ==
  /\ pc = "prompt"
  /\ userInput' = "Q"
  /\ pc' = "done"
  /\ UNCHANGED <<board, before, turns>>

\* a direction is read and updateTheBoardBasedOnTheUserMove(userInput) runs
UpdateTheBoard ==
  /\ pc = "prompt"
  /\ turns < MaxTurns
  /\ \E move \in Moves :
       /\ userInput' = move
       /\ board' = updateTheBoardBasedOnTheUserMove(board, move)
       /\ pc' = IF updateRaises(board, move) THEN "raised" ELSE "spawn"
  /\ before' = board
  /\ turns' = turns + 1

\* the spawn step of a loop that spawns only after a move that changed the board
addANewTwoIfBoardChanged ==
  /\ pc = "spawn"
  /\ board' \in (IF before = board THEN {board} ELSE SpawnResults(board))
  /\ before' = board
  /\ pc' = "check"
  /\ UNCHANGED <<userInput, turns>>

addANewTwoToBoard ==
  /\ pc = "spawn"
  /\ board' \in SpawnResults(board)
  /\ before' = board
  /\ pc' = "check"
  /\ UNCHANGED <<userInput, turns>>

\* displayGame(); if isFull(): break
CheckFull ==
  /\ pc = "check"
  /\ pc' = IF isFull(board) THEN "done" ELSE "prompt"
  /\ UNCHANGED <<board, before, userInput, turns>>

Next == Quit \/ UpdateTheBoard \/ addANewTwoToBoard \/ CheckFull

Spec == Init /\ [][Next]_vars

(* ---------------- one turn from any grid of a bounded family ---------------- *)

Positions == (1..BoardRows) \X (1..BoardCols)

\* the sets of at most n positions
RECURSIVE SubsetsUpTo(_)
SubsetsUpTo(n) ==
  IF n = 0 THEN {{}}
  ELSE LET smaller == SubsetsUpTo(n - 1)
       IN  smaller \cup {T \cup {p} : T \in smaller, p \in Positions}

\* the grid holding f[p] at every position p of the domain of f
GridOf(f) ==
  [row \in 1..BoardRows |-> [col \in 1..BoardCols |->
     IF <<row, col>> \in DOMAIN f THEN f[<<row, col>>] ELSE Empty]]

\* at most MaxTiles tiles, anywhere, of any value of TileVals
SparseGrid(g) ==
  \E S \in SubsetsUpTo(MaxTiles) : \E f \in [S -> TileVals] : g = GridOf(f)

\* one row or one column filled in every way, the rest empty
LineGrid(g) ==
  \E r \in 1..BoardRows : \E line \in [1..BoardCols -> TileVals \cup {Empty}] :
     \/ g = [EmptyBoard EXCEPT ![r] = line]
     \/ g = transposeBoard([EmptyBoard EXCEPT ![r] = line])

\* 2s and 4s in stripes or in a checkerboard, with at most MaxHoles empty cells
DenseGrid(g) ==
  \E a \in 0..1 : \E b \in 0..1 : \E H \in SubsetsUpTo(MaxHoles) :
     g = [row \in 1..BoardRows |-> [col \in 1..BoardCols |->
            IF <<row, col>> \in H THEN Empty
            ELSE IF (a * row + b * col) % 2 = 0 THEN 2 ELSE 4]]

InitFn ==
  /\ \/ SparseGrid(board)
     \/ LineGrid(board)
     \/ DenseGrid(board)
  /\ before = EmptyBoard
  /\ userInput = "none"
  /\ pc = "prompt"
  /\ turns = MaxTurns - 1

SpecFn == InitFn /\ [][Next]_vars

(* ---------------- single calls on grids of any dimensions ---------------- *)

\* the functions read the dimensions off the board (len(board), len(board[0])):
\* one call of updateTheBoardBasedOnTheUserMove or of transposeBoard on every
\* grid of at most MaxDim rows and MaxDim columns whose cells are empty or 2
InitCall ==
  /\ \E rows \in 1..MaxDim : \E cols \in 1..MaxDim :
       board \in [1..rows -> [1..cols -> {Empty, 2}]]
  /\ before = EmptyBoard
  /\ userInput = "none"
  /\ pc = "call"
  /\ turns = 0

CallUpdateTheBoard ==
  /\ pc = "call"
  /\ \E move \in Tokens :
       /\ userInput' = move
       /\ board' = updateTheBoardBasedOnTheUserMove(board, move)
       /\ pc' = IF updateRaises(board, move) THEN "raised" ELSE "returned"
  /\ before' = board
  /\ UNCHANGED turns

\* board = transposeBoard(board)
CallTransposeBoard ==
  /\ pc = "call"
  /\ board' = transposeBoard(board)
  /\ before' = board
  /\ pc' = "transposed"
  /\ UNCHANGED <<userInput, turns>>

NextCall == CallUpdateTheBoard \/ CallTransposeBoard

SpecCall == InitCall /\ [][NextCall]_vars

(* ---------------- notions the properties are stated in ---------------- *)

\* line i of grid b along the axis of direction d, read from the target edge of d
\* inwards: a row for A and D, a column for W and S
LineOf(b, d, i) ==
  CASE d = "A" -> [k \in 1..BoardCols |-> b[i][k]]
    [] d = "D" -> [k \in 1..BoardCols |-> b[i][BoardCols + 1 - k]]
    [] d = "W" -> [k \in 1..BoardRows |-> b[k][i]]
    [] d = "S" -> [k \in 1..BoardRows |-> b[BoardRows + 1 - k][i]]

\* the number of lines along the axis of d
LineCount(d) == IF d \in {"A", "D"} THEN BoardRows ELSE BoardCols

\* the tiles of a line, in order, without the empty cells
Tiles(line) == SelectSeq(line, LAMBDA v : v > 0)

OccupiedCount(b) == Cardinality({p \in Positions : b[p[1]][p[2]] > 0})

Score(b) ==
  LET RECURSIVE Total(_)
      Total(S) == IF S = {} THEN 0
                  ELSE LET p == CHOOSE q \in S : TRUE
                       IN  b[p[1]][p[2]] + Total(S \ {p})
  IN  Total({p \in Positions : b[p[1]][p[2]] > 0})

\* a move has just been applied to the grid `before`, giving `board`
Moved == pc = "spawn" /\ userInput \in Moves

(* ---------------- C1 ---------------- *)

\* C1: the score (the sum of all occupied values) of the grid a move in any
\* direction produces equals the score of the grid it was applied to.
C1_ScorePreserved ==
  Moved => /\ Score(board) = Score(before)
           /\ getCurrentScore(board) = getCurrentScore(before)

\* a move that merged tiles: fewer tiles, the same score
C1_Witness ==
  /\ Moved
  /\ OccupiedCount(board) < OccupiedCount(before)
  /\ Score(board) = Score(before)
  /\ Score(board) > 0

(* ---------------- C2 ---------------- *)

\* two equal tiles lie next to each other in some line along the axis of d
EqualNeighbours(b, d) ==
  \E i \in 1..LineCount(d) : \E k \in 1..(Len(LineOf(b, d, i)) - 1) :
     LineOf(b, d, i)[k] > 0 /\ LineOf(b, d, i)[k] = LineOf(b, d, i)[k + 1]

\* C2 as stated: applying the same move again, with no spawn in between,
\* gives the grid the first application gave.
C2_Idempotent ==
  Moved => updateTheBoardBasedOnTheUserMove(board, userInput) = board

\* C2 as amended: applying the same move again, with no spawn in between,
\* gives the grid of the first application exactly when that grid has no two
\* equal tiles next to each other along the axis of the move.
C2_IdempotentUnlessEqualNeighbours ==
  Moved => (updateTheBoardBasedOnTheUserMove(board, userInput) = board
              <=> ~EqualNeighbours(board, userInput))

\* a move that merged, after which the same move changes nothing more
C2_Witness ==
  /\ Moved
  /\ OccupiedCount(board) < OccupiedCount(before)
  /\ ~EqualNeighbours(board, userInput)
  /\ updateTheBoardBasedOnTheUserMove(board, userInput) = board

(* ---------------- C3 ---------------- *)

\* the sum of the n elements of s from position i on
RECURSIVE RunSum(_, _, _)
RunSum(s, i, n) == IF n = 0 THEN 0 ELSE s[i] + RunSum(s, i + 1, n - 1)

\* the position in the input where the k-th group starts, the groups having
\* the sizes sz[1], sz[2], ...
GroupStart(sz, k) == 1 + RunSum(sz, 1, k - 1)

\* out is made from in by cutting in into consecutive groups of one tile or of
\* two equal tiles, in order, and replacing every group by one tile holding
\* its sum; no tile of in belongs to two groups and none is left out
MergedOnce(in, out) ==
  \E sz \in [1..Len(out) -> 1..2] :
     /\ RunSum(sz, 1, Len(out)) = Len(in)
     /\ \A k \in 1..Len(out) :
          IF sz[k] = 1
          THEN out[k] = in[GroupStart(sz, k)]
          ELSE /\ in[GroupStart(sz, k)] = in[GroupStart(sz, k) + 1]
               /\ out[k] = 2 * in[GroupStart(sz, k)]

\* C3: within one move a tile merges at most once: the tiles of every output
\* line are, in order, single input tiles of that line carried over unchanged
\* and doubles of two equal input tiles that were neighbours in the compacted
\* line, every input tile being used once; row [2,2,4,Empty] moved Left gives
\* [4,4,Empty,Empty] and row [2,Empty,2,2] moved Left gives [4,2,Empty,Empty].
C3_MergeAtMostOnce ==
  Moved =>
    /\ \A i \in 1..LineCount(userInput) :
         MergedOnce(Tiles(LineOf(before, userInput, i)),
                    Tiles(LineOf(board, userInput, i)))
    /\ \A i \in 1..BoardRows :
         /\ (userInput = "A" /\ before[i] = <<2, 2, 4, Empty>>)
              => board[i] = <<4, 4, Empty, Empty>>
         /\ (userInput = "A" /\ before[i] = <<2, Empty, 2, 2>>)
              => board[i] = <<4, 2, Empty, Empty>>

\* row [2,2,4,Empty] has been moved Left: the new 4 did not merge with the old 4
C3_Witness ==
  /\ Moved
  /\ userInput = "A"
  /\ before[1] = <<2, 2, 4, Empty>>
  /\ board[1] = <<4, 4, Empty, Empty>>

\* row [2,Empty,2,2] has been moved Left
C3_WitnessGap ==
  /\ Moved
  /\ userInput = "A"
  /\ before[1] = <<2, Empty, 2, 2>>
  /\ board[1] = <<4, 2, Empty, Empty>>

(* ---------------- C4 ---------------- *)

RECURSIVE IsPowerOfTwo(_)
IsPowerOfTwo(v) == v = 2 \/ (v > 2 /\ v % 2 = 0 /\ IsPowerOfTwo(v \div 2))

\* C4: in every state of a session the grid has exactly R x C cells and
\* every cell is Empty or holds a power of two that is at least 2.
C4_GridWellFormed ==
  /\ Len(board) = BoardRows
  /\ \A row \in 1..BoardRows :
       /\ Len(board[row]) = BoardCols
       /\ \A col \in 1..BoardCols :
            board[row][col] = Empty \/ IsPowerOfTwo(board[row][col])

\* a session in which merges have produced an 8 beside 2s spawned later
C4_Witness ==
  /\ pc = "prompt"
  /\ turns >= 3
  /\ \E p \in Positions : board[p[1]][p[2]] = 8
  /\ \E p \in Positions : board[p[1]][p[2]] = 2

(* ---------------- C5 ---------------- *)

HasEmptyCell(b) == OccupiedCount(b) < BoardRows * BoardCols

\* b2 is b1 with one empty cell of b1 set to 2 and nothing else changed
OneTwoAdded(b1, b2) ==
  \E p \in Positions :
     /\ b1[p[1]][p[2]] = Empty
     /\ b2[p[1]][p[2]] = 2
     /\ \A q \in Positions \ {p} : b2[q[1]][q[2]] = b1[q[1]][q[2]]

\* C5: a move entered while the session is in progress is processed as the
\* move, then the spawn, then the fullness test: the move step adds no tile,
\* the spawn step follows it, the test follows the spawn and changes nothing,
\* and after it the session is terminated exactly if the grid has no empty
\* cell, whether or not equal tiles are still next to each other.
C5_TurnOrder ==
  [][/\ (pc = "prompt" /\ userInput' \in Moves) =>
          (pc' = "spawn" /\ OccupiedCount(board') <= OccupiedCount(board))
     /\ pc = "spawn" =>
          (pc' = "check" /\ (HasEmptyCell(board) => OneTwoAdded(board, board')))
     /\ pc = "check" =>
          /\ board' = board
          /\ pc' \in {"prompt", "done"}
          /\ pc' = "done" <=> ~HasEmptyCell(board)]_vars

\* a turn has ended the session on a full grid that a further move could merge
C5_Witness ==
  /\ pc = "done"
  /\ userInput \in Moves
  /\ ~HasEmptyCell(board)
  /\ \E d \in Moves : EqualNeighbours(board, d)
  /\ OneTwoAdded(before, board)

(* ---------------- C6 ---------------- *)

\* addANewTwoToBoard has just run on the grid `before`, giving `board`
Spawned == pc = "check"

\* C6: the spawn leaves a grid with no empty cell unchanged; on a grid with an
\* empty cell it sets exactly one cell that was empty to 2 and leaves every
\* other cell unchanged, so that the occupied count grows by exactly 1.
C6_SpawnFrame ==
  Spawned =>
    IF HasEmptyCell(before)
    THEN /\ OneTwoAdded(before, board)
         /\ OccupiedCount(board) = OccupiedCount(before) + 1
    ELSE board = before

\* the spawn has run on a full grid and changed nothing
C6_Witness ==
  /\ Spawned
  /\ ~HasEmptyCell(before)
  /\ board = before

\* the spawn has put a 2 on one of several empty cells of a grid with tiles
C6_WitnessAdded ==
  /\ Spawned
  /\ OccupiedCount(before) >= 2
  /\ OccupiedCount(board) = OccupiedCount(before) + 1
  /\ before[1][1] = Empty /\ board[1][1] = Empty
  /\ before[4][4] = Empty /\ board[4][4] = 2

(* ---------------- C7 ---------------- *)

\* the merges a move in direction d performs on grid b, over lines 1..n
RECURSIVE MergesOfLines(_, _, _)
MergesOfLines(b, d, n) ==
  IF n = 0 THEN 0
  ELSE MergeCount(Tiles(LineOf(b, d, n)), 1, FALSE) + MergesOfLines(b, d, n - 1)

MergesOfMove(b, d) == MergesOfLines(b, d, LineCount(d))

\* C7: a move never raises the number of occupied cells; it lowers it by
\* exactly the number of merges performed, and it leaves a line that had no
\* tile without a tile.
C7_CountDropsByMerges ==
  Moved =>
    /\ OccupiedCount(board) <= OccupiedCount(before)
    /\ OccupiedCount(board) = OccupiedCount(before) - MergesOfMove(before, userInput)
    /\ \A i \in 1..LineCount(userInput) :
         Tiles(LineOf(before, userInput, i)) = <<>>
           => Tiles(LineOf(board, userInput, i)) = <<>>

\* a move that performed two merges in one line and none in another, beside
\* lines without tiles
C7_Witness ==
  /\ Moved
  /\ MergesOfMove(before, userInput) >= 2
  /\ OccupiedCount(board) = OccupiedCount(before) - MergesOfMove(before, userInput)
  /\ \E i \in 1..LineCount(userInput) : Tiles(LineOf(board, userInput, i)) = <<>>
  /\ \E i \in 1..LineCount(userInput) : Len(Tiles(LineOf(board, userInput, i))) >= 2

(* ---------------- C8 ---------------- *)

\* no empty cell lies between a tile and the start of the line
Packed(line) ==
  \A j \in 1..Len(line) : \A k \in 1..Len(line) :
     (j < k /\ line[j] = Empty) => line[k] = Empty

\* out is made from in by replacing consecutive runs of tiles by their sums,
\* in order: no tile overtakes another
OrderKept(in, out) ==
  \E sz \in [1..Len(out) -> 1..Len(in)] :
     /\ RunSum(sz, 1, Len(out)) = Len(in)
     /\ \A k \in 1..Len(out) : out[k] = RunSum(in, GroupStart(sz, k), sz[k])

\* C8: after a move every line along its axis is packed against the target
\* edge of the direction (no empty cell between a tile and that edge), and
\* the tiles keep the relative order they had before the move.
C8_PackedInOrder ==
  Moved =>
    \A i \in 1..LineCount(userInput) :
       /\ Packed(LineOf(board, userInput, i))
       /\ OrderKept(Tiles(LineOf(before, userInput, i)),
                    Tiles(LineOf(board, userInput, i)))

\* a move Down has packed the distinct tiles of a column with gaps against the
\* bottom edge, in their order
C8_Witness ==
  /\ Moved
  /\ userInput = "S"
  /\ \E c \in 1..BoardCols :
       /\ LineOf(before, "W", c) = <<2, Empty, 4, Empty>>
       /\ LineOf(board, "W", c) = <<Empty, Empty, 2, 4>>

(* ---------------- C9 ---------------- *)

\* a move has just been applied and has changed nothing on the grid
MovedNothing == Moved /\ board = before

\* C9: a move that changes nothing on the grid is treated like any other
\* move: the turn still puts a 2 on an empty cell, so the grid after the turn
\* differs from the grid before it.
C9_SpawnAfterIdleMove ==
  [][MovedNothing =>
       /\ pc' = "check"
       /\ OneTwoAdded(before, board')
       /\ board' # before]_vars

\* a move of a session has changed nothing: the tiles were already packed
\* against the target edge and none could merge
C9_Witness ==
  /\ MovedNothing
  /\ OccupiedCount(board) >= 2
  /\ HasEmptyCell(board)

(* ---------------- C10 ---------------- *)

\* init() has run and no input has been read yet
NewlyInitialised == userInput = "none"

\* C10: a newly initialised 4 x 4 session is in progress and its grid has
\* exactly two occupied cells, at two distinct positions, each holding 2, all
\* other cells being empty; its score is 4.
C10_InitialSession ==
  NewlyInitialised =>
    /\ pc = "prompt"
    /\ Len(board) = 4 /\ \A row \in 1..4 : Len(board[row]) = 4
    /\ \E p \in Positions : \E q \in Positions \ {p} :
         /\ board[p[1]][p[2]] = 2
         /\ board[q[1]][q[2]] = 2
         /\ \A r \in Positions \ {p, q} : board[r[1]][r[2]] = Empty
    /\ OccupiedCount(board) = 2
    /\ getCurrentScore(board) = 4
    /\ Score(board) = 4

\* the session init() builds when it samples the numbers 3 and 12
C10_Witness ==
  /\ NewlyInitialised
  /\ pc = "prompt"
  /\ turns = 0
  /\ board[1][4] = 2
  /\ board[4][1] = 2
  /\ getCurrentScore(board) = 4

(* ---------------- C11 ---------------- *)

\* the session is over: the loop was left by a break, on Q or on a full grid
Terminated == pc = "done" \/ userInput = "Q"

\* C11: Terminated is absorbing: once the session is terminated, by a full
\* grid or by quit, no move is applied, no tile is spawned and the grid never
\* changes again.
C11_TerminatedAbsorbing ==
  [][Terminated =>
       /\ pc = "done"
       /\ pc' = "done"
       /\ board' = board
       /\ turns' = turns
       /\ userInput' = userInput]_vars

\* a session ended by a turn that filled the grid
C11_Witness ==
  /\ pc = "done"
  /\ userInput \in Moves
  /\ ~HasEmptyCell(board)

\* a session ended by Q with empty cells left
C11_WitnessQuit ==
  /\ pc = "done"
  /\ userInput = "Q"
  /\ HasEmptyCell(board)

(* ---------------- C12 ---------------- *)

\* C12: a quit entered while the session is in progress ends it at once,
\* with no move applied and no tile spawned: the grid and the score after the
\* quit are the grid and the score before it.
C12_QuitChangesNothing ==
  [][(pc = "prompt" /\ userInput' = "Q") =>
       /\ pc' = "done"
       /\ board' = board
       /\ getCurrentScore(board') = getCurrentScore(board)
       /\ Score(board') = Score(board)
       /\ turns' = turns]_vars

\* a session quit after two turns were played
C12_Witness ==
  /\ pc = "done"
  /\ userInput = "Q"
  /\ turns = 2
  /\ Score(board) = 8

(* ---------------- C13 ---------------- *)

\* updateTheBoardBasedOnTheUserMove has been called on its own with userInput
\* as its argument and has returned or raised
Called == pc \in {"returned", "raised"}

\* C13: called with a token that is not one of the four directions, the move
\* function fails with an error instead of passing it over in silence, and
\* the grid is left exactly as it was before the call.
C13_UnknownMoveRaises ==
  (Called /\ userInput \notin {"W", "A", "S", "D"}) =>
     /\ pc = "raised"
     /\ board = before

\* the call with the lower-case w on a grid that W would have changed
C13_Witness ==
  /\ pc = "raised"
  /\ userInput = "w"
  /\ board = before
  /\ Len(board) = 3 /\ Len(board[1]) = 3
  /\ board[3][1] = 2 /\ board[1][1] = Empty

(* ---------------- C14 ---------------- *)

\* C14: isFull is true of a grid exactly if the number of its occupied cells
\* is R x C, that is if none of its cells is empty.
C14_IsFullIffAllOccupied ==
  /\ isFull(board) <=> OccupiedCount(board) = BoardRows * BoardCols
  /\ isFull(board) <=> ~(\E p \in Positions : board[p[1]][p[2]] = Empty)
  /\ (pc = "done" /\ userInput \in Moves) => isFull(board)
  /\ (pc = "prompt" /\ userInput \in Moves) => ~isFull(board)

\* isFull has answered False on a grid whose only empty cell is the last one
\* in reading order, all rows before it being full
C14_Witness ==
  /\ pc = "prompt"
  /\ userInput \in Moves
  /\ OccupiedCount(board) = BoardRows * BoardCols - 1
  /\ board[BoardRows][BoardCols] = Empty
  /\ ~isFull(board)

\* isFull has answered True and ended the session
C14_WitnessFull ==
  /\ pc = "done"
  /\ userInput \in Moves
  /\ OccupiedCount(board) = BoardRows * BoardCols
  /\ isFull(board)

(* ---------------- C15 ---------------- *)

\* C15: for a grid of any dimensions R x C, square or not, the transpose has
\* C rows and R columns, its cell (c, r) is the cell (r, c) of the grid, and
\* transposing it again gives the grid back.
C15_TransposeInvolution ==
  pc = "transposed" =>
    /\ Len(board) = Len(before[1])
    /\ \A c \in 1..Len(board) :
         /\ Len(board[c]) = Len(before)
         /\ \A r \in 1..Len(before) : board[c][r] = before[r][c]
    /\ transposeBoard(board) = before

\* a grid of 2 rows and 3 columns with tiles off the diagonal has been transposed
C15_Witness ==
  /\ pc = "transposed"
  /\ Len(before) = 2 /\ Len(before[1]) = 3
  /\ Len(board) = 3 /\ Len(board[1]) = 2
  /\ before[1][3] = 2 /\ before[2][1] = Empty
  /\ board[3][1] = 2 /\ board[1][2] = Empty

(* ---------------- C17 ---------------- *)

\* the tiles of a line, first tile nearest the target edge, after pairing
\* equal neighbours off from that edge: the first two if they are equal,
\* then on with the tiles behind them
RECURSIVE PairedFromEdge(_)
PairedFromEdge(tiles) ==
  IF Len(tiles) <= 1 THEN tiles
  ELSE IF tiles[1] = tiles[2]
       THEN <<2 * tiles[1]>> \o PairedFromEdge(SubSeq(tiles, 3, Len(tiles)))
       ELSE <<tiles[1]>> \o PairedFromEdge(Tail(tiles))

\* C17: in every direction the tiles of a line are paired off starting from
\* the tile nearest the target edge; row [2,2,2,Empty] moved Right gives
\* [Empty,Empty,2,4], and a column [2,2,2,Empty] (top to bottom) moved Down
\* gives [Empty,Empty,2,4].
C17_MergeFromTargetEdge ==
  Moved =>
    /\ \A i \in 1..LineCount(userInput) :
         Tiles(LineOf(board, userInput, i))
           = PairedFromEdge(Tiles(LineOf(before, userInput, i)))
    /\ \A i \in 1..BoardRows :
         (userInput = "D" /\ before[i] = <<2, 2, 2, Empty>>)
           => board[i] = <<Empty, Empty, 2, 4>>
    /\ \A i \in 1..BoardCols :
         (userInput = "S" /\ LineOf(before, "W", i) = <<2, 2, 2, Empty>>)
           => LineOf(board, "W", i) = <<Empty, Empty, 2, 4>>

\* row [2,2,2,Empty] has been moved Right
C17_Witness ==
  /\ Moved
  /\ userInput = "D"
  /\ before[2] = <<2, 2, 2, Empty>>
  /\ board[2] = <<Empty, Empty, 2, 4>>

\* a column [2,2,2,Empty] has been moved Down
C17_WitnessDown ==
  /\ Moved
  /\ userInput = "S"
  /\ LineOf(before, "W", 3) = <<2, 2, 2, Empty>>
  /\ LineOf(board, "W", 3) = <<Empty, Empty, 2, 4>>

(* ---------------- C16 ---------------- *)

\* column c of a grid of any dimensions, read from the target edge of d
\* inwards: from the top for W, from the bottom for S
ColumnFromEdge(b, d, c) ==
  [k \in 1..Len(b) |-> IF d = "W" THEN b[k][c] ELSE b[Len(b) + 1 - k][c]]

\* a line after sliding and merging towards its start
SlidLine(line) ==
  LET tiles == PairedFromEdge(Tiles(line))
  IN  [k \in 1..Len(line) |-> IF k <= Len(tiles) THEN tiles[k] ELSE Empty]

\* C16: on a grid of R rows and C columns, R and C equal or not, a move Up or
\* Down slides and merges every one of the C columns and returns a grid of
\* the same dimensions; no column is skipped and no line out of range is read.
C16_UpDownEveryColumn ==
  (Called /\ userInput \in {"W", "S"}) =>
     /\ pc = "returned"
     /\ Len(board) = Len(before)
     /\ \A r \in 1..Len(board) : Len(board[r]) = Len(before[1])
     /\ \A c \in 1..Len(before[1]) :
          ColumnFromEdge(board, userInput, c)
            = SlidLine(ColumnFromEdge(before, userInput, c))

\* the same on grids of as many rows as columns only
C16_OnSquareGrids ==
  Len(before) = Len(before[1]) => C16_UpDownEveryColumn

\* on a grid of fewer rows than columns the call returns and the columns
\* beyond the R-th are as they were
C16_ColumnsBeyondRowsSkipped ==
  (Called /\ userInput \in {"W", "S"} /\ Len(before) < Len(before[1])) =>
     /\ pc = "returned"
     /\ \A c \in 1..Len(before[1]) :
          ColumnFromEdge(board, userInput, c)
            = IF c <= Len(before)
              THEN SlidLine(ColumnFromEdge(before, userInput, c))
              ELSE ColumnFromEdge(before, userInput, c)

\* on a grid of more rows than columns the call raises and leaves the board
\* transposed
C16_MoreRowsRaises ==
  (Called /\ userInput \in {"W", "S"} /\ Len(before) > Len(before[1])) =>
     /\ pc = "raised"
     /\ Len(board) = Len(before[1])
     /\ Len(board[1]) = Len(before)

(* ---------------- C18 ---------------- *)

====
